---- MODULE Spec2Model ----
(***************************************************************************)
(* Model of github.com/hayeah/goo, package fetch/sse: the EOLSplitter line *)
(* splitter, driven by a bufio.Scanner, under the Scanner event assembler; *)
(* and of package goo, exit.go: the ShutdownContext and its goroutines.    *)
(*                                                                         *)
(* Bytes are one-character strings; byte strings are sequences of them.    *)
(* The byte source is the whole stream `input`, handed out by Read in      *)
(* chunks of any size, and ended by io.EOF or by a read failure.           *)
(***************************************************************************)
EXTENDS Integers, Sequences, FiniteSets, TLC

VARIABLES
    input,        \* the bytes the underlying source will deliver, in order
    srcPos,       \* number of bytes of input already returned by Read
    readComment,  \* Scanner.readComment
    buf,          \* bufio.Scanner: s.buf[s.start:s.end], the unconsumed bytes
    scErr,        \* bufio.Scanner: s.err ("nil", "EOF", "fail", "toolong")
    prevCR,       \* EOLSplitter.prevCR
    pc,           \* position of the caller: "idle", or inside Next: "split" / "read"
    event,        \* Next: local `event`
    dataLines,    \* Next: local `dataLines`
    seen,         \* Next: local `seenNonEmptyLine`
    next,         \* Scanner.next
    err,          \* Scanner.err
    ret,          \* what the last Next call returned: "true" / "false" ("none" until it has)
    events,       \* history: Event() after every Next call that returned true
    tokens,       \* history: every token the split function has returned
    lastSplit,    \* history: the Split call made since the last Read, if any
    dry,          \* history: whether the running/last Next call began with the
                  \*          stream ended by io.EOF and nothing buffered: "no",
                  \*          "first", or "again" when the call before returned false
    callStart,    \* history: Len(tokens) when the running/last Next call began
    closable,     \* whether the reader given to NewScanner is an io.ReadCloser
    tees,         \* the layers Tee has wrapped around the reader, innermost first:
                  \*   w: the bytes written to the sink of the layer so far,
                  \*   early: whether Tee was called before the first Next
    closes,       \* number of Close calls the original reader has received
    closeCalls,   \* number of Scanner.Close calls made
    ctxDone,      \* ShutdownContext: whether the context is cancelled (Done is closed)
    mu,           \* ShutdownContext.mu: the goroutine holding it, "free" when none does
    wg,           \* ShutdownContext.wg: the counter of the WaitGroup
    waitCount,    \* ShutdownContext.waitCount
    exitFns,      \* ShutdownContext.exitFns: the goroutines that registered them, in order
    ran,          \* history: the exit functions started by runExitFns, in order
    sigints,      \* the counter i of the SIGINT goroutine of ProvideShutdownContext
    handlerReset, \* whether signal.Reset(os.Interrupt) has been called
    epc,          \* position of the two goroutines that can call doExit:
                  \*   "main": "init", "run", then inside doExit "lock", "wait", "fns",
                  \*     "cleanup", and "relock" when the exit function waits for mu
                  \*   "watcher": "watch" until Done is closed, then as "main"
    code,         \* the exit code each of them passes to doExit
    wpc,          \* position of each worker goroutine: "idle"; in BlockExit "add",
                  \*   "fn" (the function is running), "counted"; in OnExit "locked"
    calls,        \* number of BlockExit and OnExit calls each worker has made
    exited,       \* whether the process has ended
    exitCode,     \* the code it ended with
    overlap,      \* history: whether doExit started an exit function, or called
                  \*   os.Exit, while a function run by BlockExit had not returned
    hasCtx,       \* whether exitCtx is set: init has called ProvideShutdownContext
    initErr,      \* Main: whether init returned an error
    runCalled,    \* Main: whether runner.Run() has been called
    runErr,       \* Main: whether Run returned an error
    killed,       \* whether a signal, not os.Exit, ended the process
    cancels,      \* history: number of cancel() calls of the SIGINT goroutine
    lateAdmit,    \* history: whether BlockExit let a call through that was made
                  \*   after doExit had been called
    lastFailed,   \* history: the place in exitFns of the last exit function that
                  \*   returned an error, 0 when none has
    migTable,     \* the name column of the rows of table `migrations`, in insertion order
    migSchema,    \* the migrations whose Up statement is in effect in the database, in
                  \*   the order in which their transactions were committed
    migExecs,     \* history: the migrations whose Up statement tx.Exec was given, in
                  \*   order, those of transactions rolled back included
    upPc,         \* DBMigrator.Up: "idle" between calls, "loop" inside the range loop
    upList,       \* Up: the argument `migrations` of the running or last call
    upApplied,    \* Up: the keys of the local map appliedMigrations
    upIdx,        \* Up: the place in upList the range loop has come to
    upErr,        \* what the last Up call returned: "nil", "error" ("none" until it has)
    upCalls,      \* number of Up calls made
    upTable0,     \* history: migTable when the running or last call began
    upExecs0      \* history: Len(migExecs) when the running or last call began

teeVars == <<closable, tees, closes, closeCalls>>

mainVars == <<hasCtx, initErr, runCalled, runErr>>

exitVars == <<ctxDone, mu, wg, waitCount, exitFns, ran, sigints, handlerReset, epc, code,
              wpc, calls, exited, exitCode, overlap, hasCtx, initErr, runCalled, runErr,
              killed, cancels, lateAdmit, lastFailed>>

dbVars == <<migTable, migSchema, migExecs, upPc, upList, upApplied, upIdx, upErr,
            upCalls, upTable0, upExecs0>>

scannerVars == <<input, srcPos, readComment, buf, scErr, prevCR, pc, event, dataLines,
                 seen, next, err, ret, events, tokens, lastSplit, dry, callStart,
                 closable, tees, closes, closeCalls>>

vars == <<input, srcPos, readComment, buf, scErr, prevCR, pc, event, dataLines,
          seen, next, err, ret, events, tokens, lastSplit, dry, callStart,
          closable, tees, closes, closeCalls,
          ctxDone, mu, wg, waitCount, exitFns, ran, sigints, handlerReset, epc, code,
          wpc, calls, exited, exitCode, overlap,
          hasCtx, initErr, runCalled, runErr, killed, cancels, lateAdmit, lastFailed,
          migTable, migSchema, migExecs, upPc, upList, upApplied, upIdx, upErr,
          upCalls, upTable0, upExecs0>>

----------------------------------------------------------------------------
(* Bounds of the model. *)

\* longest byte stream drawn from the raw alphabet
MaxLen == 4
\* largest number of sample lines in a line-structured stream
MaxLines == 3
\* largest number of lines in a stream of field lines
MaxFieldLines == 3
\* largest number of Tee calls on one scanner
MaxTees == 2
\* largest number of Close calls on one scanner
MaxCloses == 2
\* longest list of migrations given to Up
MaxMigrations == 2
\* largest number of Up calls
MaxUpCalls == 2
\* number of worker goroutines beside main
MaxWorkers == 1
\* largest number of BlockExit and OnExit calls of one worker
MaxCalls == 2

(* Program constants. *)

crlfLen == 2
\* the number of SIGINTs after which the handler is reset
ForceSigints == 3
\* int(syscall.SIGINT)
SIGINT == 2
\* the exit status of a Go program that ends in a panic
PanicExit == 2
\* bufio.MaxScanTokenSize, the token limit of the scanner bufio.NewScanner builds
MaxScanTokenSize == 65536

CR == "\r"
LF == "\n"
SP == " "

----------------------------------------------------------------------------
(* Byte-string helpers (Go: slices, package strings, package strconv). *)

Drop(s, n) == SubSeq(s, n + 1, Len(s))

Min(S) == CHOOSE x \in S : \A y \in S : x <= y

\* unicode.IsSpace, on the bytes the model uses
IsSpace(c) == c \in {SP, "\t", CR, LF}

RECURSIVE TrimLeft(_)
TrimLeft(s) == IF s # <<>> /\ IsSpace(Head(s)) THEN TrimLeft(Tail(s)) ELSE s

RECURSIVE TrimRight(_)
TrimRight(s) ==
    IF s # <<>> /\ IsSpace(s[Len(s)]) THEN TrimRight(SubSeq(s, 1, Len(s) - 1)) ELSE s

\* faulty variant: the line is not trimmed
TrimSpace_None(s) == s

\* strings.TrimSpace
TrimSpace(s) == TrimRight(TrimLeft(s))

\* strings.HasPrefix
HasPrefix(s, p) == Len(s) >= Len(p) /\ SubSeq(s, 1, Len(p)) = p

\* strings.TrimPrefix
TrimPrefix(s, p) == IF HasPrefix(s, p) THEN Drop(s, Len(p)) ELSE s

Digits == <<"0", "1", "2", "3", "4", "5", "6", "7", "8", "9">>

IsDigit(c) == \E d \in 1..10 : Digits[d] = c

DigitVal(c) == (CHOOSE d \in 1..10 : Digits[d] = c) - 1

RECURSIVE Decimal(_)
Decimal(s) == IF s = <<>> THEN 0 ELSE 10 * Decimal(SubSeq(s, 1, Len(s) - 1)) + DigitVal(s[Len(s)])

\* strconv.Atoi: an optional sign, then one or more decimal digits
Atoi(s) ==
    LET signed == s # <<>> /\ Head(s) \in {"+", "-"}
        body   == IF signed THEN Tail(s) ELSE s
        ok     == body # <<>> /\ \A i \in 1..Len(body) : IsDigit(body[i])
    IN  [ok  |-> ok,
         val |-> IF ~ok THEN 0
                 ELSE IF signed /\ Head(s) = "-" THEN 0 - Decimal(body) ELSE Decimal(body)]

\* strings.Join(lines, "\n")
RECURSIVE Join(_)
Join(ls) ==
    IF ls = <<>> THEN <<>>
    ELSE IF Len(ls) = 1 THEN ls[1]
    ELSE ls[1] \o <<LF>> \o Join(Tail(ls))

----------------------------------------------------------------------------
(* EOLSplitter.Split *)

\* 1-based index of the first CR or LF of data, 0 when there is none
FirstEOL(data) ==
    LET S == {i \in 1..Len(data) : data[i] \in {CR, LF}}
    IN  IF S = {} THEN 0 ELSE Min(S)

NeedMore(p) == [advance |-> 0, token |-> <<>>, hasToken |-> FALSE, prevCR |-> p]

Token(n, t) == [advance |-> n, token |-> t, hasToken |-> TRUE, prevCR |-> FALSE]

(* Faulty variants of Split, each a slip the code could have made. *)

\* a CR that ends the data is taken as a bare CR at once, without waiting for an LF
Split_NoWait(p, data, atEOF) ==
    LET i == FirstEOL(data)
    IN  IF i = 0
        THEN IF atEOF /\ Len(data) > 0 THEN Token(Len(data), data) ELSE NeedMore(FALSE)
        ELSE IF data[i] = CR /\ i + 1 <= Len(data) /\ data[i + 1] = LF
             THEN Token(i - 1 + crlfLen, SubSeq(data, 1, i - 1))
             ELSE Token(i, SubSeq(data, 1, i - 1))

\* the CR of a CR LF pair is consumed alone, so that the LF ends a line of its own
Split_CRLFTwice(p, data, atEOF) ==
    LET i == FirstEOL(data)
    IN  IF i = 0
        THEN IF atEOF /\ Len(data) > 0 THEN Token(Len(data), data) ELSE NeedMore(FALSE)
        ELSE IF data[i] = CR /\ ~atEOF /\ i = Len(data)
             THEN NeedMore(TRUE)
             ELSE Token(i, SubSeq(data, 1, i - 1))

\* the bytes after the last terminator are not returned at end of input
Split_NoFinalToken(p, data, atEOF) ==
    LET i == FirstEOL(data)
    IN  IF i = 0
        THEN NeedMore(FALSE)
        ELSE IF data[i] = CR
             THEN IF i + 1 <= Len(data) /\ data[i + 1] = LF
                  THEN Token(i - 1 + crlfLen, SubSeq(data, 1, i - 1))
                  ELSE IF ~atEOF /\ i = Len(data)
                       THEN NeedMore(TRUE)
                       ELSE Token(i, SubSeq(data, 1, i - 1))
             ELSE Token(i, SubSeq(data, 1, i - 1))

\* bufio.ScanLines: only LF ends a line, and one CR before it is dropped
Split_ScanLines(p, data, atEOF) ==
    LET S == {i \in 1..Len(data) : data[i] = LF}
        dropCR(t) == IF t # <<>> /\ t[Len(t)] = CR THEN SubSeq(t, 1, Len(t) - 1) ELSE t
    IN  IF S = {}
        THEN IF atEOF /\ Len(data) > 0 THEN Token(Len(data), dropCR(data))
                                      ELSE NeedMore(FALSE)
        ELSE Token(Min(S), dropCR(SubSeq(data, 1, Min(S) - 1)))

\* the pending flag is cleared by the skip of an LF only, not on entry
Split_KeepFlag(p, data, atEOF) ==
    IF p /\ Len(data) > 0 /\ data[1] = LF
    THEN [advance |-> 1, token |-> <<>>, hasToken |-> FALSE, prevCR |-> FALSE]
    ELSE LET i == FirstEOL(data)
             tok(n, t) == [advance |-> n, token |-> t, hasToken |-> TRUE, prevCR |-> p]
         IN  IF i = 0
             THEN IF atEOF /\ Len(data) > 0 THEN tok(Len(data), data)
                                           ELSE NeedMore(p)
             ELSE IF data[i] = CR
                  THEN IF i + 1 <= Len(data) /\ data[i + 1] = LF
                       THEN tok(i - 1 + crlfLen, SubSeq(data, 1, i - 1))
                       ELSE IF ~atEOF /\ i = Len(data)
                            THEN NeedMore(TRUE)
                            ELSE tok(i, SubSeq(data, 1, i - 1))
                  ELSE tok(i, SubSeq(data, 1, i - 1))

\* Split(data, atEOF) with s.prevCR = p on entry; the result carries s.prevCR on return
Split(p, data, atEOF) ==
    IF p /\ Len(data) > 0 /\ data[1] = LF
    THEN [advance |-> 1, token |-> <<>>, hasToken |-> FALSE, prevCR |-> FALSE]
    ELSE LET i == FirstEOL(data)
         IN  IF i = 0
             THEN IF atEOF /\ Len(data) > 0 THEN Token(Len(data), data)
                                           ELSE NeedMore(FALSE)
             ELSE IF data[i] = CR
                  THEN IF i + 1 <= Len(data) /\ data[i + 1] = LF
                       THEN Token(i - 1 + crlfLen, SubSeq(data, 1, i - 1))
                       ELSE IF ~atEOF /\ i = Len(data)
                            THEN NeedMore(TRUE)
                            ELSE Token(i, SubSeq(data, 1, i - 1))
                  ELSE Token(i, SubSeq(data, 1, i - 1))

NoSplit ==
    [called |-> FALSE, data |-> <<>>, atEOF |-> FALSE, pending |-> FALSE,
     advance |-> 0, token |-> <<>>, hasToken |-> FALSE]

----------------------------------------------------------------------------
(* ServerSentEvent and the line classification of Scanner.Next *)

ZeroEvent == [ID |-> <<>>, Data |-> <<>>, Event |-> <<>>, Retry |-> 0, Comment |-> <<>>]

PrefID    == <<"i", "d", ":", SP>>
PrefData  == <<"d", "a", "t", "a", ":", SP>>
PrefEvent == <<"e", "v", "e", "n", "t", ":", SP>>
PrefRetry == <<"r", "e", "t", "r", "y", ":", SP>>
PrefColon == <<":">>

\* faulty variant: a comment is stored with the white space after its colon removed
ApplyLine_TrimmedComment(ev, dl, line, rc) ==
    IF HasPrefix(line, PrefColon) /\ rc
    THEN [event |-> [ev EXCEPT !.Comment = TrimSpace(TrimPrefix(line, PrefColon))],
          dataLines |-> dl]
    ELSE IF HasPrefix(line, PrefData)
    THEN [event |-> ev, dataLines |-> Append(dl, TrimPrefix(line, PrefData))]
    ELSE [event |-> ev, dataLines |-> dl]

\* faulty variant: a `retry: ` value that does not parse resets Retry to zero
ApplyLine_RetryResets(ev, dl, line, rc) ==
    IF HasPrefix(line, PrefID)
    THEN [event |-> [ev EXCEPT !.ID = TrimPrefix(line, PrefID)], dataLines |-> dl]
    ELSE IF HasPrefix(line, PrefRetry)
    THEN [event |-> [ev EXCEPT !.Retry = Atoi(TrimPrefix(line, PrefRetry)).val],
          dataLines |-> dl]
    ELSE [event |-> ev, dataLines |-> dl]

\* faulty variant: an `id: ` or `event: ` line is ignored once the field is set
ApplyLine_FirstWins(ev, dl, line, rc) ==
    IF HasPrefix(line, PrefID)
    THEN [event |-> IF ev.ID = <<>> THEN [ev EXCEPT !.ID = TrimPrefix(line, PrefID)] ELSE ev,
          dataLines |-> dl]
    ELSE IF HasPrefix(line, PrefEvent)
    THEN [event |-> IF ev.Event = <<>>
                    THEN [ev EXCEPT !.Event = TrimPrefix(line, PrefEvent)] ELSE ev,
          dataLines |-> dl]
    ELSE [event |-> ev, dataLines |-> dl]

\* the switch of Next on a trimmed, non-empty line: the new (event, dataLines)
ApplyLine(ev, dl, line, rc) ==
    IF HasPrefix(line, PrefID)
    THEN [event |-> [ev EXCEPT !.ID = TrimPrefix(line, PrefID)], dataLines |-> dl]
    ELSE IF HasPrefix(line, PrefData)
    THEN [event |-> ev, dataLines |-> Append(dl, TrimPrefix(line, PrefData))]
    ELSE IF HasPrefix(line, PrefEvent)
    THEN [event |-> [ev EXCEPT !.Event = TrimPrefix(line, PrefEvent)], dataLines |-> dl]
    ELSE IF HasPrefix(line, PrefRetry)
    THEN LET r == Atoi(TrimPrefix(line, PrefRetry))
         IN  [event |-> IF r.ok THEN [ev EXCEPT !.Retry = r.val] ELSE ev, dataLines |-> dl]
    ELSE IF HasPrefix(line, PrefColon)
    THEN [event |-> IF rc THEN [ev EXCEPT !.Comment = TrimPrefix(line, PrefColon)] ELSE ev,
          dataLines |-> dl]
    ELSE [event |-> ev, dataLines |-> dl]

\* faulty variant: the error of the last Read is reported as it is, io.EOF too
ScannerErr_Raw(e) == e

\* bufio.Scanner.Err: io.EOF is not reported as an error
ScannerErr(e) == IF e = "EOF" THEN "nil" ELSE e

\* bufio.Scanner.Scan, top of its loop: split what is held, or read first
ScanEntry(b, e) == IF Len(b) > 0 \/ e # "nil" THEN "split" ELSE "read"

----------------------------------------------------------------------------
(* The streams the source may hold. *)

Alphabet == {CR, LF, SP, ":", "a"}

RawInputs == UNION {[1..n -> Alphabet] : n \in 0..MaxLen}

LineDataA  == PrefData \o <<"A">>
LineDataB  == PrefData \o <<"B">>
LineData0  == PrefData
LineHello  == <<":", SP, "h", "e", "l", "l", "o">>
LineBlank  == <<>>

SampleLines == {LineDataA, LineDataB, LineData0, LineHello, LineBlank}

\* the lines of ls, each followed by LF; the last LF is left out unless closed
RECURSIVE Stream(_, _)
Stream(ls, closed) ==
    IF ls = <<>> THEN <<>>
    ELSE IF Len(ls) = 1 THEN (IF closed THEN ls[1] \o <<LF>> ELSE ls[1])
    ELSE ls[1] \o <<LF>> \o Stream(Tail(ls), closed)

LineInputs ==
    {Stream(ls, c) : ls \in UNION {[1..n -> SampleLines] : n \in 1..MaxLines},
                     c \in BOOLEAN}

Inputs == RawInputs \cup LineInputs

LineID1     == PrefID \o <<"1">>
LineID2     == PrefID \o <<"2">>
LineEventE  == PrefEvent \o <<"e">>
LineEventF  == PrefEvent \o <<"f">>
LineRetry7  == PrefRetry \o <<"7">>
LineRetry12 == PrefRetry \o <<"1", "2">>
LineRetryX  == PrefRetry \o <<"x">>

FieldLines == {LineID1, LineID2, LineEventE, LineEventF, LineRetry7, LineRetry12,
               LineRetryX, LineDataA, LineHello, LineBlank}

\* a run of bytes without a line ending, as long as the scanner's buffer can get
LongLine == [i \in 1..MaxScanTokenSize |-> "a"]
\* the longest run that still leaves room for its line ending
BigLine == [i \in 1..(MaxScanTokenSize - 1) |-> "a"]

LongHeads == {<<>>, LineDataA \o <<LF>>, LineHello \o <<CR, LF>>}
LongTails == {<<>>, <<LF>>, <<CR, LF>>, <<"a", LF>>, <<LF, LF>> \o LineDataB \o <<LF>>}

LongInputs == {h \o l \o t : h \in LongHeads, l \in {LongLine, BigLine}, t \in LongTails}

TeeInputs ==
    {Stream(<<LineDataA, LineBlank>>, TRUE),
     LineDataA \o <<CR, LF, CR, LF>> \o LineDataB,
     LineHello \o <<CR>> \o LineBlank \o <<LF>>}

FieldInputs ==
    {Stream(ls, c) : ls \in UNION {[1..n -> FieldLines] : n \in 1..MaxFieldLines},
                     c \in BOOLEAN}

----------------------------------------------------------------------------
(* The state machine. *)

Workers == 1..MaxWorkers

\* a fresh ShutdownContext with its two goroutines started, nothing registered
CtxInit ==
    /\ ctxDone = FALSE
    /\ mu = "free"
    /\ wg = 0
    /\ waitCount = 0
    /\ exitFns = <<>>
    /\ ran = <<>>
    /\ sigints = 0
    /\ handlerReset = FALSE
    /\ code = [p \in {"main", "watcher"} |-> 0]
    /\ wpc = [w \in Workers |-> "idle"]
    /\ calls = [w \in Workers |-> 0]
    /\ exited = FALSE
    /\ exitCode = 0
    /\ overlap = FALSE
    /\ runErr = FALSE
    /\ killed = FALSE
    /\ cancels = 0
    /\ lateAdmit = FALSE
    /\ lastFailed = 0

\* init has succeeded and has called ProvideShutdownContext: Main is in the
\* runner's Run
ExitInit ==
    /\ CtxInit
    /\ hasCtx = TRUE
    /\ initErr = FALSE
    /\ runCalled = TRUE
    /\ epc = [p \in {"main", "watcher"} |-> IF p = "main" THEN "run" ELSE "watch"]

\* Main is about to call init, which calls ProvideShutdownContext or does not
MainInitial ==
    /\ CtxInit
    /\ hasCtx \in BOOLEAN
    /\ initErr = FALSE
    /\ runCalled = FALSE
    /\ epc = [p \in {"main", "watcher"} |-> IF p = "main" THEN "init" ELSE "watch"]

\* NewScanner(r, readComment), r holding one of the streams of ins
\* and being an io.ReadCloser or not as cls says
ScannerInit(ins, cls) ==
    /\ input \in ins
    /\ closable \in cls
    /\ tees = <<>>
    /\ closes = 0
    /\ closeCalls = 0
    /\ readComment \in BOOLEAN
    /\ srcPos = 0
    /\ buf = <<>>
    /\ scErr = "nil"
    /\ prevCR = FALSE
    /\ pc = "idle"
    /\ event = ZeroEvent
    /\ dataLines = <<>>
    /\ seen = FALSE
    /\ next = ZeroEvent
    /\ err = "nil"
    /\ ret = "none"
    /\ events = <<>>
    /\ tokens = <<>>
    /\ lastSplit = NoSplit
    /\ dry = "no"
    /\ callStart = 0

\* ProvideDBMigrator on a database that has no table `migrations` yet
DBInit ==
    /\ migTable = <<>>
    /\ migSchema = <<>>
    /\ migExecs = <<>>
    /\ upPc = "idle"
    /\ upList = <<>>
    /\ upApplied = {}
    /\ upIdx = 0
    /\ upErr = "none"
    /\ upCalls = 0
    /\ upTable0 = <<>>
    /\ upExecs0 = 0

InitWith(ins, cls) == ExitInit /\ DBInit /\ ScannerInit(ins, cls)

\* the callers pass the body of an HTTP response, an io.ReadCloser
Init == InitWith(Inputs, {TRUE})

InitLong == InitWith(LongInputs, {TRUE})

InitTee == InitWith(TeeInputs, BOOLEAN)

\* the shutdown machinery alone, beside a scanner that is not used
InitExit == InitWith({<<>>}, {TRUE}) /\ readComment = FALSE

\* the same from the start of Main
InitMain == MainInitial /\ DBInit /\ ScannerInit({<<>>}, {TRUE}) /\ readComment = FALSE

\* the migrator alone
InitDB == InitExit

InitFields == InitWith(FieldInputs, {TRUE})

\* faulty variant: Next goes on filling the event it returned last
NextCall_KeepEvent ==
    /\ pc = "idle"
    /\ closeCalls = 0
    /\ next' = ZeroEvent
    /\ event' = next
    /\ dataLines' = <<>>
    /\ seen' = FALSE
    /\ ret' = "none"
    /\ pc' = ScanEntry(buf, scErr)
    /\ dry' = "no"
    /\ callStart' = Len(tokens)
    /\ UNCHANGED <<input, srcPos, readComment, buf, scErr, prevCR, err, events,
                   tokens, lastSplit>>
    /\ UNCHANGED teeVars
    /\ UNCHANGED exitVars
    /\ UNCHANGED dbVars

\* Next, entry: zero the event, then the first s.scanner.Scan(); the caller is
\* taken not to go on reading a scanner it has closed
NextCall ==
    /\ pc = "idle"
    /\ closeCalls = 0
    /\ next' = ZeroEvent
    /\ event' = ZeroEvent
    /\ dataLines' = <<>>
    /\ seen' = FALSE
    /\ ret' = "none"
    /\ pc' = ScanEntry(buf, scErr)
    /\ dry' = IF scErr = "EOF" /\ buf = <<>>
               THEN (IF ret = "false" THEN "again" ELSE "first")
               ELSE "no"
    /\ callStart' = Len(tokens)
    /\ UNCHANGED <<input, srcPos, readComment, buf, scErr, prevCR, err, events,
                   tokens, lastSplit>>
    /\ UNCHANGED teeVars
    /\ UNCHANGED exitVars
    /\ UNCHANGED dbVars

\* Next, after its loop: s.err = s.scanner.Err(), then the result
Return(sn, ev, dl, e) ==
    /\ pc' = "idle"
    /\ err' = ScannerErr(e)
    /\ event' = ev
    /\ dataLines' = dl
    /\ seen' = sn
    /\ IF ~sn
       THEN /\ ret' = "false"
            /\ UNCHANGED <<next, events>>
       ELSE /\ ret' = "true"
            /\ next' = [ev EXCEPT !.Data = Join(dl)]
            /\ events' = Append(events, next')

\* One call of the split function by Scan, and what Scan and Next do with its result
SplitStep ==
    /\ pc = "split"
    /\ LET r == Split(prevCR, buf, scErr # "nil")
       IN  /\ prevCR' = r.prevCR
           /\ lastSplit' = [called |-> TRUE, data |-> buf, atEOF |-> (scErr # "nil"),
                            pending |-> prevCR, advance |-> r.advance,
                            token |-> r.token, hasToken |-> r.hasToken]
           /\ IF r.hasToken
              THEN \* Scan returns true; the loop body of Next runs on the token
                   LET line == TrimSpace(r.token)
                       rest == Drop(buf, r.advance)
                   IN  /\ buf' = rest
                       /\ tokens' = Append(tokens, r.token)
                       /\ scErr' = scErr
                       /\ IF line = <<>>
                          THEN IF seen
                               THEN Return(TRUE, event, dataLines, scErr)
                               ELSE /\ pc' = ScanEntry(rest, scErr)
                                    /\ UNCHANGED <<event, dataLines, seen, next, err,
                                                   ret, events>>
                          ELSE LET a == ApplyLine(event, dataLines, line, readComment)
                               IN  /\ seen' = TRUE
                                   /\ event' = a.event
                                   /\ dataLines' = a.dataLines
                                   /\ pc' = ScanEntry(rest, scErr)
                                   /\ UNCHANGED <<next, err, ret, events>>
              ELSE /\ tokens' = tokens
                   /\ scErr' = scErr
                   /\ IF scErr # "nil"
                      THEN \* Scan shuts down and returns false: the loop of Next ends
                           /\ buf' = <<>>
                           /\ Return(seen, event, dataLines, scErr)
                      ELSE \* Scan must read more data
                           /\ buf' = Drop(buf, r.advance)
                           /\ pc' = "read"
                           /\ UNCHANGED <<event, dataLines, seen, next, err, ret, events>>
    /\ UNCHANGED <<input, srcPos, readComment, dry, callStart>>
    /\ UNCHANGED teeVars
    /\ UNCHANGED exitVars
    /\ UNCHANGED dbVars

\* faulty variant: the sink gets the first byte of each chunk only
TeeWrite_Short(w, p) == w \o SubSeq(p, 1, Min({1, Len(p)}))

\* io.TeeReader: the bytes p that Read returned are written to the sink, which is
\* taken to accept them, before Read returns them
TeeWrite(w, p) == w \o p

\* Scan reads from the source: n more bytes arrive, n one of sizes, and the end of
\* the stream (kind: io.EOF or a read failure) is reported with them or, when none
\* are left, alone
Read(sizes) ==
    /\ pc = "read"
    /\ lastSplit' = NoSplit
    /\ IF Len(buf) >= MaxScanTokenSize
       THEN \* the buffer is full and cannot grow: ErrTooLong, Scan returns false
            /\ scErr' = "toolong"
            /\ Return(seen, event, dataLines, "toolong")
            /\ UNCHANGED <<srcPos, buf, tees>>
       ELSE \E n \in sizes, ended \in BOOLEAN, kind \in {"EOF", "fail"} :
            /\ n <= MaxScanTokenSize - Len(buf)
            /\ ended => n = Len(input) - srcPos
            /\ ~ended => (n > 0 /\ kind = "EOF")
            /\ srcPos' = srcPos + n
            /\ tees' = [i \in 1..Len(tees) |->
                         [tees[i] EXCEPT !.w = TeeWrite(@, SubSeq(input, srcPos + 1,
                                                                  srcPos + n))]]
            /\ buf' = buf \o SubSeq(input, srcPos + 1, srcPos + n)
            /\ scErr' = IF ended THEN kind ELSE "nil"
            /\ pc' = "split"
            /\ UNCHANGED <<event, dataLines, seen, next, err, ret, events>>
    /\ UNCHANGED <<input, readComment, prevCR, tokens, dry, callStart>>
    /\ UNCHANGED <<closable, closes, closeCalls>>
    /\ UNCHANGED exitVars
    /\ UNCHANGED dbVars

\* a Read that returns any number of the bytes left
ReadStep == Read(0..(Len(input) - srcPos))

\* a Read that returns all the bytes left, as far as the buffer has room for them
ReadFill == Read({Min({Len(input) - srcPos, MaxScanTokenSize - Len(buf)})})

Next == NextCall \/ SplitStep \/ ReadStep

Spec == Init /\ [][Next]_vars

\* streams of field lines, read in as few Reads as possible
NextFill == NextCall \/ SplitStep \/ ReadFill

SpecFields == InitFields /\ [][NextFill]_vars

\* streams with a line at the token limit of the scanner
SpecLong == InitLong /\ [][NextFill]_vars

\* Tee(w), between two Next calls: the reader is wrapped in a layer whose Reader
\* is a TeeReader on it and whose Closer is it, and setReader builds a new
\* bufio.Scanner and a new splitter on the layer
Tee ==
    /\ pc = "idle"
    /\ Len(tees) < MaxTees
    /\ tees' = Append(tees, [w |-> <<>>, early |-> (ret = "none")])
    /\ buf' = <<>>
    /\ scErr' = "nil"
    /\ prevCR' = FALSE
    /\ lastSplit' = NoSplit
    /\ UNCHANGED <<input, srcPos, readComment, pc, event, dataLines, seen, next, err,
                   ret, events, tokens, dry, callStart, closable, closes, closeCalls>>
    /\ UNCHANGED exitVars
    /\ UNCHANGED dbVars

\* faulty variant: a layer closes nothing
LayerCloses_Nop(k) == IF k = 0 /\ closable THEN 1 ELSE 0

\* the Close calls the original reader gets from one Close of s.readCloser under
\* k layers: a layer forwards Close to the readCloser it wraps, and the readCloser
\* of setReader is the reader itself or, when it has no Close, an io.NopCloser
RECURSIVE LayerCloses(_)
LayerCloses(k) ==
    IF k = 0 THEN (IF closable THEN 1 ELSE 0) ELSE LayerCloses(k - 1)

\* Close(): s.readCloser.Close()
Close ==
    /\ pc = "idle"
    /\ closeCalls < MaxCloses
    /\ closeCalls' = closeCalls + 1
    /\ closes' = closes + LayerCloses(Len(tees))
    /\ UNCHANGED <<input, srcPos, readComment, buf, scErr, prevCR, pc, event,
                   dataLines, seen, next, err, ret, events, tokens, lastSplit, dry,
                   callStart, closable, tees>>
    /\ UNCHANGED exitVars
    /\ UNCHANGED dbVars

NextTee == NextCall \/ SplitStep \/ ReadStep \/ Tee \/ Close

SpecTee == InitTee /\ [][NextTee]_vars

----------------------------------------------------------------------------
(* exit.go: ShutdownContext.  Main runs the runner and then calls              *)
(* gracefulExit; the SIGINT goroutine counts signals and cancels the context;  *)
(* the watcher goroutine calls doExit once the context is cancelled; workers   *)
(* are the goroutines of the application that call BlockExit and OnExit.       *)

\* some function passed to BlockExit is running
BlockRunning == \E w \in Workers : wpc[w] = "fn"

\* doExit has been called, by gracefulExit or by the watcher
DoExitCalled == \E p \in {"main", "watcher"} : epc[p] \notin {"init", "run", "watch"}

\* faulty variant: every SIGINT cancels, and the handler is reset one signal early
Sigint_Eager ==
    /\ ~exited /\ hasCtx /\ ~handlerReset
    /\ ctxDone' = TRUE
    /\ sigints' = sigints + 1
    /\ handlerReset' = (sigints + 1 = ForceSigints - 1)
    /\ cancels' = cancels + 1
    /\ UNCHANGED <<mu, wg, waitCount, exitFns, ran, epc, code, wpc, calls, exited,
                   exitCode, overlap>>
    /\ UNCHANGED <<hasCtx, initErr, runCalled, runErr, killed, lateAdmit, lastFailed>>
    /\ UNCHANGED scannerVars
    /\ UNCHANGED dbVars

\* the SIGINT goroutine receives a signal: the first one cancels the context,
\* and the handler is reset when ForceSigints of them have been counted
Sigint ==
    /\ ~exited /\ hasCtx /\ ~handlerReset
    /\ ctxDone' = (ctxDone \/ sigints = 0)
    /\ sigints' = sigints + 1
    /\ handlerReset' = (sigints + 1 = ForceSigints)
    /\ UNCHANGED <<mu, wg, waitCount, exitFns, ran, epc, code, wpc, calls, exited,
                   exitCode, overlap>>
    /\ cancels' = (IF sigints = 0 THEN cancels + 1 ELSE cancels)
    /\ UNCHANGED <<hasCtx, initErr, runCalled, runErr, killed, lateAdmit, lastFailed>>
    /\ UNCHANGED scannerVars
    /\ UNCHANGED dbVars

\* a SIGINT while no handler is installed, the handler having been reset or
\* ProvideShutdownContext never called: the signal ends the process
SigintDefault ==
    /\ ~exited /\ (handlerReset \/ ~hasCtx)
    /\ exited' = TRUE
    /\ exitCode' = 128 + SIGINT
    /\ UNCHANGED <<ctxDone, mu, wg, waitCount, exitFns, ran, sigints, handlerReset, epc,
                   code, wpc, calls, overlap>>
    /\ killed' = TRUE
    /\ UNCHANGED <<hasCtx, initErr, runCalled, runErr, cancels, lateAdmit, lastFailed>>
    /\ UNCHANGED scannerVars
    /\ UNCHANGED dbVars

\* Main: init returns, with an error or without.  After an error gracefulExit(1)
\* calls doExit when exitCtx is set; when it is not, gracefulExit returns and
\* Main goes on to runner.Run() with the zero runner, which panics or runs
\* as the runner's type has it
MainInit ==
    /\ ~exited /\ epc["main"] = "init"
    /\ \E e \in BOOLEAN, panics \in BOOLEAN :
          /\ initErr' = e
          /\ e \/ ~panics
          /\ IF e /\ hasCtx
             THEN /\ ~panics
                  /\ code' = [code EXCEPT !["main"] = 1]
                  /\ epc' = [epc EXCEPT !["main"] = "lock"]
                  /\ UNCHANGED <<runCalled, exited, exitCode>>
             ELSE /\ runCalled' = TRUE
                  /\ IF panics
                     THEN /\ exited' = TRUE
                          /\ exitCode' = PanicExit
                          /\ UNCHANGED <<epc, code>>
                     ELSE /\ epc' = [epc EXCEPT !["main"] = "run"]
                          /\ UNCHANGED <<code, exited, exitCode>>
    /\ UNCHANGED <<ctxDone, mu, wg, waitCount, exitFns, ran, sigints, handlerReset, wpc,
                   calls, overlap, hasCtx, runErr, killed, cancels, lateAdmit, lastFailed>>
    /\ UNCHANGED scannerVars
    /\ UNCHANGED dbVars

\* Main: Run returns, with an error or without, and gracefulExit calls doExit;
\* when exitCtx is not set every gracefulExit returns, Main returns and the
\* process ends as a main function that returns does
MainReturns ==
    /\ ~exited /\ epc["main"] = "run"
    /\ \E e \in BOOLEAN :
          /\ runErr' = e
          /\ IF hasCtx
             THEN /\ code' = [code EXCEPT !["main"] = IF e THEN 1 ELSE 0]
                  /\ epc' = [epc EXCEPT !["main"] = "lock"]
                  /\ UNCHANGED <<exited, exitCode>>
             ELSE /\ exited' = TRUE
                  /\ exitCode' = 0
                  /\ UNCHANGED <<epc, code>>
    /\ UNCHANGED <<ctxDone, mu, wg, waitCount, exitFns, ran, sigints, handlerReset, wpc,
                   calls, overlap, hasCtx, initErr, runCalled, killed, cancels, lateAdmit,
                   lastFailed>>
    /\ UNCHANGED scannerVars
    /\ UNCHANGED dbVars

\* the watcher goroutine: <-exitCtx.Done(), then doExit(128 + SIGINT)
WatcherWakes ==
    /\ ~exited /\ epc["watcher"] = "watch" /\ ctxDone
    /\ code' = [code EXCEPT !["watcher"] = 128 + SIGINT]
    /\ epc' = [epc EXCEPT !["watcher"] = "lock"]
    /\ UNCHANGED <<ctxDone, mu, wg, waitCount, exitFns, ran, sigints, handlerReset, wpc,
                   calls, exited, exitCode, overlap>>
    /\ UNCHANGED <<hasCtx, initErr, runCalled, runErr, killed, cancels, lateAdmit, lastFailed>>
    /\ UNCHANGED scannerVars
    /\ UNCHANGED dbVars

\* faulty variant: doExit goes on without waiting for the lock
DoExitLock_NoLock(p) ==
    /\ ~exited /\ epc[p] = "lock"
    /\ mu' = p
    /\ epc' = [epc EXCEPT ![p] = "wait"]
    /\ UNCHANGED <<ctxDone, wg, waitCount, exitFns, ran, sigints, handlerReset, code, wpc,
                   calls, exited, exitCode, overlap>>
    /\ UNCHANGED <<hasCtx, initErr, runCalled, runErr, killed, cancels, lateAdmit, lastFailed>>
    /\ UNCHANGED scannerVars
    /\ UNCHANGED dbVars

\* doExit: c.mu.Lock()
DoExitLock(p) ==
    /\ ~exited /\ epc[p] = "lock" /\ mu = "free"
    /\ mu' = p
    /\ epc' = [epc EXCEPT ![p] = "wait"]
    /\ UNCHANGED <<ctxDone, wg, waitCount, exitFns, ran, sigints, handlerReset, code, wpc,
                   calls, exited, exitCode, overlap>>
    /\ UNCHANGED <<hasCtx, initErr, runCalled, runErr, killed, cancels, lateAdmit, lastFailed>>
    /\ UNCHANGED scannerVars
    /\ UNCHANGED dbVars

\* doExit: waitBlocks, c.wg.Wait() returns when the counter is zero
WaitBlocks(p) ==
    /\ ~exited /\ epc[p] = "wait" /\ wg = 0
    /\ epc' = [epc EXCEPT ![p] = "fns"]
    /\ UNCHANGED <<ctxDone, mu, wg, waitCount, exitFns, ran, sigints, handlerReset, code,
                   wpc, calls, exited, exitCode, overlap>>
    /\ UNCHANGED <<hasCtx, initErr, runCalled, runErr, killed, cancels, lateAdmit, lastFailed>>
    /\ UNCHANGED scannerVars
    /\ UNCHANGED dbVars

\* doExit: runExitFns calls the next exit function
CleanupStart(p) ==
    /\ ~exited /\ epc[p] = "fns" /\ Len(ran) < Len(exitFns)
    /\ ran' = Append(ran, exitFns[Len(ran) + 1])
    /\ epc' = [epc EXCEPT ![p] = "cleanup"]
    /\ overlap' = (overlap \/ BlockRunning)
    /\ UNCHANGED <<ctxDone, mu, wg, waitCount, exitFns, sigints, handlerReset, code, wpc,
                   calls, exited, exitCode>>
    /\ UNCHANGED <<hasCtx, initErr, runCalled, runErr, killed, cancels, lateAdmit, lastFailed>>
    /\ UNCHANGED scannerVars
    /\ UNCHANGED dbVars

\* doExit: the exit function returns, with an error or without
CleanupEnd(p) ==
    /\ ~exited /\ epc[p] = "cleanup"
    /\ epc' = [epc EXCEPT ![p] = "fns"]
    /\ UNCHANGED <<ctxDone, mu, wg, waitCount, exitFns, ran, sigints, handlerReset, code,
                   wpc, calls, exited, exitCode, overlap>>
    /\ \E e \in BOOLEAN : lastFailed' = (IF e THEN Len(ran) ELSE lastFailed)
    /\ UNCHANGED <<hasCtx, initErr, runCalled, runErr, killed, cancels, lateAdmit>>
    /\ UNCHANGED scannerVars
    /\ UNCHANGED dbVars

\* doExit: the running exit function calls OnExit, whose c.mu.Lock() waits for
\* the lock that doExit holds
CleanupCallsOnExit(p) ==
    /\ ~exited /\ epc[p] = "cleanup"
    /\ epc' = [epc EXCEPT ![p] = "relock"]
    /\ UNCHANGED <<ctxDone, mu, wg, waitCount, exitFns, ran, sigints, handlerReset, code,
                   wpc, calls, exited, exitCode, overlap>>
    /\ UNCHANGED <<hasCtx, initErr, runCalled, runErr, killed, cancels, lateAdmit, lastFailed>>
    /\ UNCHANGED scannerVars
    /\ UNCHANGED dbVars

\* faulty variant: runExitFns gives up at the first exit function that fails
OsExit_StopsOnError(p) ==
    /\ ~exited /\ epc[p] = "fns"
    /\ Len(ran) = Len(exitFns) \/ (ran # <<>> /\ lastFailed = Len(ran))
    /\ exited' = TRUE
    /\ exitCode' = code[p]
    /\ overlap' = (overlap \/ BlockRunning)
    /\ UNCHANGED <<ctxDone, mu, wg, waitCount, exitFns, ran, sigints, handlerReset, epc,
                   code, wpc, calls>>
    /\ UNCHANGED <<hasCtx, initErr, runCalled, runErr, killed, cancels, lateAdmit, lastFailed>>
    /\ UNCHANGED scannerVars
    /\ UNCHANGED dbVars

\* doExit: os.Exit(code) after the last exit function
OsExit(p) ==
    /\ ~exited /\ epc[p] = "fns" /\ Len(ran) = Len(exitFns)
    /\ exited' = TRUE
    /\ exitCode' = code[p]
    /\ overlap' = (overlap \/ BlockRunning)
    /\ UNCHANGED <<ctxDone, mu, wg, waitCount, exitFns, ran, sigints, handlerReset, epc,
                   code, wpc, calls>>
    /\ UNCHANGED <<hasCtx, initErr, runCalled, runErr, killed, cancels, lateAdmit, lastFailed>>
    /\ UNCHANGED scannerVars
    /\ UNCHANGED dbVars

\* BlockExit: the select on c.Done(); ErrShutdown when the context is cancelled
BlockExitCheck(w) ==
    /\ ~exited /\ hasCtx /\ wpc[w] = "idle" /\ calls[w] < MaxCalls
    /\ calls' = [calls EXCEPT ![w] = @ + 1]
    /\ wpc' = [wpc EXCEPT ![w] = IF ctxDone THEN "idle" ELSE "add"]
    /\ UNCHANGED <<ctxDone, mu, wg, waitCount, exitFns, ran, sigints, handlerReset, epc,
                   code, exited, exitCode, overlap>>
    /\ lateAdmit' = (lateAdmit \/ (DoExitCalled /\ ~ctxDone))
    /\ UNCHANGED <<hasCtx, initErr, runCalled, runErr, killed, cancels, lastFailed>>
    /\ UNCHANGED scannerVars
    /\ UNCHANGED dbVars

\* BlockExit: c.wg.Add(1), waitCount + 1, and fn is called
BlockExitAdd(w) ==
    /\ ~exited /\ wpc[w] = "add"
    /\ wg' = wg + 1
    /\ waitCount' = waitCount + 1
    /\ wpc' = [wpc EXCEPT ![w] = "fn"]
    /\ UNCHANGED <<ctxDone, mu, exitFns, ran, sigints, handlerReset, epc, code, calls,
                   exited, exitCode, overlap>>
    /\ UNCHANGED <<hasCtx, initErr, runCalled, runErr, killed, cancels, lateAdmit, lastFailed>>
    /\ UNCHANGED scannerVars
    /\ UNCHANGED dbVars

\* BlockExit: fn returns
BlockExitFnReturns(w) ==
    /\ ~exited /\ wpc[w] = "fn"
    /\ wpc' = [wpc EXCEPT ![w] = "counted"]
    /\ UNCHANGED <<ctxDone, mu, wg, waitCount, exitFns, ran, sigints, handlerReset, epc,
                   code, calls, exited, exitCode, overlap>>
    /\ UNCHANGED <<hasCtx, initErr, runCalled, runErr, killed, cancels, lateAdmit, lastFailed>>
    /\ UNCHANGED scannerVars
    /\ UNCHANGED dbVars

\* BlockExit: waitCount - 1, c.wg.Done(), return
BlockExitDone(w) ==
    /\ ~exited /\ wpc[w] = "counted"
    /\ wg' = wg - 1
    /\ waitCount' = waitCount - 1
    /\ wpc' = [wpc EXCEPT ![w] = "idle"]
    /\ UNCHANGED <<ctxDone, mu, exitFns, ran, sigints, handlerReset, epc, code, calls,
                   exited, exitCode, overlap>>
    /\ UNCHANGED <<hasCtx, initErr, runCalled, runErr, killed, cancels, lateAdmit, lastFailed>>
    /\ UNCHANGED scannerVars
    /\ UNCHANGED dbVars

\* OnExit: c.mu.Lock()
OnExitLock(w) ==
    /\ ~exited /\ hasCtx /\ wpc[w] = "idle" /\ calls[w] < MaxCalls /\ mu = "free"
    /\ calls' = [calls EXCEPT ![w] = @ + 1]
    /\ mu' = "worker"
    /\ wpc' = [wpc EXCEPT ![w] = "locked"]
    /\ UNCHANGED <<ctxDone, wg, waitCount, exitFns, ran, sigints, handlerReset, epc, code,
                   exited, exitCode, overlap>>
    /\ UNCHANGED <<hasCtx, initErr, runCalled, runErr, killed, cancels, lateAdmit, lastFailed>>
    /\ UNCHANGED scannerVars
    /\ UNCHANGED dbVars

\* OnExit: the append, and the deferred c.mu.Unlock()
OnExitAppend(w) ==
    /\ ~exited /\ wpc[w] = "locked"
    /\ exitFns' = Append(exitFns, w)
    /\ mu' = "free"
    /\ wpc' = [wpc EXCEPT ![w] = "idle"]
    /\ UNCHANGED <<ctxDone, wg, waitCount, ran, sigints, handlerReset, epc, code, calls,
                   exited, exitCode, overlap>>
    /\ UNCHANGED <<hasCtx, initErr, runCalled, runErr, killed, cancels, lateAdmit, lastFailed>>
    /\ UNCHANGED scannerVars
    /\ UNCHANGED dbVars

DoExit ==
    \E p \in {"main", "watcher"} :
        \/ DoExitLock(p) \/ WaitBlocks(p) \/ CleanupStart(p) \/ CleanupEnd(p)
        \/ CleanupCallsOnExit(p) \/ OsExit(p)

BlockExit ==
    \E w \in Workers :
        BlockExitCheck(w) \/ BlockExitAdd(w) \/ BlockExitFnReturns(w) \/ BlockExitDone(w)

OnExit == \E w \in Workers : OnExitLock(w) \/ OnExitAppend(w)

NextExit ==
    Sigint \/ SigintDefault \/ MainReturns \/ WatcherWakes \/ DoExit \/ BlockExit \/ OnExit

SpecExit == InitExit /\ [][NextExit]_vars

\* what the Go scheduler and the claim's proviso give: a goroutine that can take
\* its next step in doExit, BlockExit or OnExit does take it (a blocked Lock or
\* Wait returns once it can), a function given to BlockExit returns, and an exit
\* function that is not itself waiting returns.  Nothing makes a signal arrive,
\* Run return, or a goroutine call BlockExit or OnExit.
ExitFairness ==
    /\ \A p \in {"main", "watcher"} :
          /\ WF_vars(DoExitLock(p)) /\ WF_vars(WaitBlocks(p))
          /\ WF_vars(CleanupStart(p)) /\ WF_vars(CleanupEnd(p))
          /\ WF_vars(OsExit(p))
    /\ \A w \in Workers :
          /\ WF_vars(BlockExitAdd(w)) /\ WF_vars(BlockExitFnReturns(w))
          /\ WF_vars(BlockExitDone(w)) /\ WF_vars(OnExitAppend(w))

SpecExitFair == InitExit /\ [][NextExit]_vars /\ ExitFairness

\* the same from the start of Main
NextMain == MainInit \/ NextExit

SpecMain == InitMain /\ [][NextMain]_vars

----------------------------------------------------------------------------
(* db_migrate.go: DBMigrator.Up, called by one client at a time on a database  *)
(* whose transactions are atomic: a rollback undoes the Up statement as well.  *)

\* the names of the migrations the application has
MigrationNames == {"create_users", "create_posts", "create_comments"}

\* the lists Up can be given: any names in any order, repeated or not
MigrationLists == UNION {[1..n -> MigrationNames] : n \in 0..MaxMigrations}

Range(f) == {f[i] : i \in DOMAIN f}

\* Up, to the range loop: CREATE TABLE IF NOT EXISTS, and the SELECT of the names
\* into appliedMigrations; either statement can fail, and Up returns the error
UpCall ==
    /\ upPc = "idle" /\ upCalls < MaxUpCalls
    /\ upCalls' = upCalls + 1
    /\ upTable0' = migTable
    /\ upExecs0' = Len(migExecs)
    /\ \E ms \in MigrationLists, fails \in BOOLEAN :
          /\ upList' = ms
          /\ IF fails
             THEN /\ upErr' = "error"
                  /\ UNCHANGED <<upPc, upApplied, upIdx>>
             ELSE /\ upPc' = "loop"
                  /\ upApplied' = Range(migTable)
                  /\ upIdx' = 1
                  /\ upErr' = "none"
    /\ UNCHANGED <<migTable, migSchema, migExecs>>
    /\ UNCHANGED scannerVars
    /\ UNCHANGED exitVars

\* faulty variant: the loop does not look at appliedMigrations
UpStep_NoCheck ==
    /\ upPc = "loop"
    /\ IF upIdx > Len(upList)
       THEN /\ upPc' = "idle"
            /\ upErr' = "nil"
            /\ UNCHANGED <<migTable, migSchema, migExecs, upIdx>>
       ELSE LET name == upList[upIdx]
            IN  \E outcome \in {"ok", "begin", "exec", "insert", "commit"} :
                  LET stops == IF outcome = "ok" /\ name \in Range(migTable)
                               THEN "insert" ELSE outcome
                  IN  /\ migExecs' = IF stops = "begin" THEN migExecs
                                     ELSE Append(migExecs, name)
                      /\ IF stops = "ok"
                         THEN /\ migSchema' = Append(migSchema, name)
                              /\ migTable' = Append(migTable, name)
                              /\ upIdx' = upIdx + 1
                              /\ UNCHANGED <<upPc, upErr>>
                         ELSE /\ upPc' = "idle"
                              /\ upErr' = "error"
                              /\ UNCHANGED <<migTable, migSchema, upIdx>>
    /\ UNCHANGED <<upList, upApplied, upCalls, upTable0, upExecs0>>
    /\ UNCHANGED scannerVars
    /\ UNCHANGED exitVars

\* Up, one round of the range loop, or its end.  A migration that is not in
\* appliedMigrations gets a transaction: Beginx, Exec of the Up statement, INSERT
\* of the name, Commit.  Any of the four can fail (outcome names the one that
\* does), and the INSERT does fail when the name is in the table already, the
\* column being UNIQUE; a failure rolls the transaction back and ends the call
UpStep ==
    /\ upPc = "loop"
    /\ IF upIdx > Len(upList)
       THEN /\ upPc' = "idle"
            /\ upErr' = "nil"
            /\ UNCHANGED <<migTable, migSchema, migExecs, upIdx>>
       ELSE LET name == upList[upIdx]
            IN  IF name \in upApplied
                THEN /\ upIdx' = upIdx + 1
                     /\ UNCHANGED <<migTable, migSchema, migExecs, upPc, upErr>>
                ELSE \E outcome \in {"ok", "begin", "exec", "insert", "commit"} :
                       LET stops == IF outcome = "ok" /\ name \in Range(migTable)
                                    THEN "insert" ELSE outcome
                       IN  /\ migExecs' = IF stops = "begin" THEN migExecs
                                          ELSE Append(migExecs, name)
                           /\ IF stops = "ok"
                              THEN /\ migSchema' = Append(migSchema, name)
                                   /\ migTable' = Append(migTable, name)
                                   /\ upIdx' = upIdx + 1
                                   /\ UNCHANGED <<upPc, upErr>>
                              ELSE /\ upPc' = "idle"
                                   /\ upErr' = "error"
                                   /\ UNCHANGED <<migTable, migSchema, upIdx>>
    /\ UNCHANGED <<upList, upApplied, upCalls, upTable0, upExecs0>>
    /\ UNCHANGED scannerVars
    /\ UNCHANGED exitVars

NextDB == UpCall \/ UpStep

SpecDB == InitDB /\ [][NextDB]_vars

----------------------------------------------------------------------------
(* Reference runs: the same stream delivered by one single Read, then io.EOF. *)

IsPrefix(a, b) == Len(a) <= Len(b) /\ SubSeq(b, 1, Len(a)) = a

\* the tokens of successive Scan calls on the bytes held, until Scan returns false
RECURSIVE ScanAll(_, _, _, _)
ScanAll(p, data, atEOF, acc) ==
    LET r == Split(p, data, atEOF)
    IN  IF r.hasToken
        THEN ScanAll(r.prevCR, Drop(data, r.advance), atEOF, Append(acc, r.token))
        ELSE IF atEOF THEN acc
        ELSE ScanAll(r.prevCR, Drop(data, r.advance), TRUE, acc)

OneChunkLines(data) == ScanAll(FALSE, data, FALSE, <<>>)

\* the events of successive Next calls over the line tokens, until Next returns false
RECURSIVE GroupEvents(_, _, _, _, _, _)
GroupEvents(lines, ev, dl, sn, rc, acc) ==
    LET done == Append(acc, [ev EXCEPT !.Data = Join(dl)])
    IN  IF lines = <<>>
        THEN IF sn THEN done ELSE acc
        ELSE LET line == TrimSpace(Head(lines))
             IN  IF line = <<>>
                 THEN IF sn THEN GroupEvents(Tail(lines), ZeroEvent, <<>>, FALSE, rc, done)
                            ELSE GroupEvents(Tail(lines), ev, dl, sn, rc, acc)
                 ELSE LET a == ApplyLine(ev, dl, line, rc)
                      IN  GroupEvents(Tail(lines), a.event, a.dataLines, TRUE, rc, acc)

OneChunkEvents(data, rc) ==
    GroupEvents(OneChunkLines(data), ZeroEvent, <<>>, FALSE, rc, <<>>)

\* the stream with every line terminator (CR LF, bare CR, bare LF) replaced by t
RECURSIVE Normalize(_, _)
Normalize(s, t) ==
    IF s = <<>> THEN <<>>
    ELSE IF s[1] = CR /\ Len(s) >= 2 /\ s[2] = LF THEN t \o Normalize(Drop(s, 2), t)
    ELSE IF s[1] \in {CR, LF} THEN t \o Normalize(Tail(s), t)
    ELSE <<s[1]>> \o Normalize(Tail(s), t)

Styles == {<<CR, LF>>, <<CR>>, <<LF>>}

\* the number of line terminators of the stream
RECURSIVE CountEOL(_)
CountEOL(s) ==
    IF s = <<>> THEN 0
    ELSE IF s[1] = CR /\ Len(s) >= 2 /\ s[2] = LF THEN 1 + CountEOL(Drop(s, 2))
    ELSE IF s[1] \in {CR, LF} THEN 1 + CountEOL(Tail(s))
    ELSE CountEOL(Tail(s))

\* Next has returned false: the iteration is over
Finished == pc = "idle" /\ ret = "false"

----------------------------------------------------------------------------
(* Claims about the line splitter. *)

\* C1: however the stream is cut into read chunks, the events returned by the
\* successive Next calls are those of the same bytes delivered as a single chunk:
\* after every Next call, what has been returned so far is a prefix of them, and
\* all of them have been returned once Next returns false.
C1_ChunkInvariance ==
    pc = "idle" =>
        LET ref == OneChunkEvents(input, readComment)
        IN  /\ IsPrefix(events, ref)
            /\ Finished => events = ref

\* a Next call returned an event on the blank line ended by a CR LF pair that was
\* cut between its CR and its LF
C1_Witness ==
    /\ pc = "idle" /\ ret = "true"
    /\ lastSplit.called /\ lastSplit.pending
    /\ lastSplit.data[1] = CR /\ lastSplit.advance = crlfLen
    /\ events = OneChunkEvents(input, readComment)

\* C2: a CR that is the last available byte while more input may come makes
\* Split return advance 0 and no token with the pending flag set; on the call
\* that follows, a CR LF pair is consumed whole as the one terminator of the
\* token before the CR, and a CR followed by another byte (or by the end of
\* input) is consumed alone, the byte after it staying in the buffer.
C2_PendingCR ==
    LET d == lastSplit.data
        n == Len(d)
    IN  /\ ( /\ lastSplit.called /\ ~lastSplit.atEOF /\ n > 0 /\ d[n] = CR
             /\ \A k \in 1..(n - 1) : d[k] \notin {CR, LF} )
           => ( /\ lastSplit.advance = 0 /\ ~lastSplit.hasToken
                /\ prevCR /\ buf = d /\ pc = "read" )
        /\ (lastSplit.called /\ lastSplit.pending)
           => \E i \in 1..n :
                /\ d[i] = CR
                /\ \A k \in 1..(i - 1) : d[k] \notin {CR, LF}
                /\ lastSplit.hasToken
                /\ lastSplit.token = SubSeq(d, 1, i - 1)
                /\ lastSplit.advance = IF i < n /\ d[i + 1] = LF THEN i + 1 ELSE i
                /\ buf = SubSeq(d, lastSplit.advance + 1, n)
                /\ ~prevCR

\* the call after a pending CR met the LF of the pair and consumed both bytes
C2_Witness ==
    /\ lastSplit.called /\ lastSplit.pending /\ lastSplit.hasToken
    /\ lastSplit.advance = Len(lastSplit.token) + crlfLen
    /\ Len(lastSplit.token) > 0
    /\ buf # <<>>

\* C3: a token returned by Split is the bytes before the first CR or LF of the
\* data (all of the data when it holds neither), holds no CR or LF, and advance
\* is its length plus that of the terminator: 2 for CR LF, 1 for CR or LF alone.
C3_TokenAndAdvance ==
    LET d == lastSplit.data
        t == lastSplit.token
        m == Len(lastSplit.token)
    IN  (lastSplit.called /\ lastSplit.hasToken)
        => /\ m <= Len(d) /\ t = SubSeq(d, 1, m)
           /\ \A k \in 1..m : t[k] \notin {CR, LF}
           /\ m < Len(d) => d[m + 1] \in {CR, LF}
           /\ lastSplit.advance =
                 m + (IF m = Len(d) THEN 0
                      ELSE IF d[m + 1] = CR /\ m + 2 <= Len(d) /\ d[m + 2] = LF THEN 2
                      ELSE 1)

\* Split returned a zero-length token for a terminator at the head of the data
C3_Witness ==
    /\ lastSplit.called /\ lastSplit.hasToken
    /\ lastSplit.token = <<>>
    /\ lastSplit.advance = 1
    /\ Len(lastSplit.data) > 1

\* C4: at end of input, data without a terminator is returned whole as one last
\* token with advance over all of it, and empty data yields no token; so the
\* stream yields one token per terminator, and one more only for bytes after
\* the last terminator.
C4_EndOfInput ==
    LET d == lastSplit.data
    IN  /\ (lastSplit.called /\ lastSplit.atEOF /\ d # <<>>
              /\ \A k \in 1..Len(d) : d[k] \notin {CR, LF})
           => (lastSplit.hasToken /\ lastSplit.token = d /\ lastSplit.advance = Len(d))
        /\ (lastSplit.called /\ lastSplit.atEOF /\ d = <<>>)
           => (~lastSplit.hasToken /\ lastSplit.advance = 0)
        /\ Finished
           => Len(tokens) = CountEOL(input)
                 + (IF input # <<>> /\ input[Len(input)] \notin {CR, LF} THEN 1 ELSE 0)

\* the stream ended with a terminator, and Split at end of input, called on the
\* empty buffer, has returned no token
C4_Witness ==
    /\ Finished
    /\ lastSplit.called /\ lastSplit.atEOF /\ lastSplit.data = <<>>
    /\ input # <<>> /\ input[Len(input)] \in {CR, LF}
    /\ Len(tokens) >= 2

\* C5: the line tokens of a stream that mixes CR LF, CR and LF are those of the
\* same content with every terminator replaced by one style, whichever style
\* (compared after every Next call: a prefix, and the whole once Next returns false).
C5_MixedTerminators ==
    pc = "idle" =>
        \A t \in Styles :
            LET ref == OneChunkLines(Normalize(input, t))
            IN  /\ IsPrefix(tokens, ref)
                /\ Finished => tokens = ref

\* a stream holding a CR LF pair, a bare CR and a bare LF has been split to its end
C5_Witness ==
    /\ Finished
    /\ \E i \in 1..(Len(input) - 1) : input[i] = CR /\ input[i + 1] = LF
    /\ \E i \in 1..Len(input) : input[i] = CR /\ (i = Len(input) \/ input[i + 1] # LF)
    /\ \E i \in 1..Len(input) : input[i] = LF /\ (i = 1 \/ input[i - 1] # CR)
    /\ Len(tokens) = 3

----------------------------------------------------------------------------
(* Claims about the event assembler. *)

\* the tokens pulled by the running/last Next call
CallTokens == SubSeq(tokens, callStart + 1, Len(tokens))

\* the payloads (the bytes after `data: `) of the data lines among toks, in order
RECURSIVE DataPayloads(_)
DataPayloads(toks) ==
    IF toks = <<>> THEN <<>>
    ELSE IF HasPrefix(Head(toks), PrefData)
         THEN <<Drop(Head(toks), Len(PrefData))>> \o DataPayloads(Tail(toks))
         ELSE DataPayloads(Tail(toks))

\* C6: the Data of every event is the payloads of all the `data: ` lines of the
\* event, the empty payload included, joined with LF in the order of the lines.
C6_DataJoinsAllPayloads ==
    (pc = "idle" /\ ret = "true") => next.Data = Join(DataPayloads(CallTokens))

\* C7: with comment capture disabled, Next returns true only for a block that
\* holds a line other than comment lines and blank lines: a block of comment
\* lines alone yields no event.
C7_CommentOnlyNoEvent ==
    (pc = "idle" /\ ret = "true" /\ ~readComment)
    => \E k \in 1..Len(CallTokens) :
          /\ TrimSpace(CallTokens[k]) # <<>>
          /\ ~HasPrefix(TrimSpace(CallTokens[k]), PrefColon)

HelloStream == Stream(<<LineHello, LineBlank>>, TRUE)

HelloEvent(c) == [ZeroEvent EXCEPT !.Comment = c]

\* C8, as claimed: with comment capture enabled, `: hello` and a blank line yield
\* one event whose Comment is the five characters hello and whose Data is empty.
C8_CommentIsHello ==
    (readComment /\ input = HelloStream)
    => /\ (pc = "idle" /\ ret = "true") => next = HelloEvent(<<"h", "e", "l", "l", "o">>)
       /\ Finished => Len(events) = 1

\* C8, amended: with comment capture enabled, `: hello` and a blank line yield
\* one event whose Comment is all the text after the leading colon, the six
\* characters space, h, e, l, l, o, and whose Data is empty.
C8_CommentKeepsSpace ==
    (readComment /\ input = HelloStream)
    => /\ (pc = "idle" /\ ret = "true")
          => next = HelloEvent(<<SP, "h", "e", "l", "l", "o">>)
       /\ Len(events) <= 1
       /\ Finished => events = <<HelloEvent(<<SP, "h", "e", "l", "l", "o">>)>>

\* the stream `: hello`, blank line has been read to its end with comment capture
\* enabled, and one event has been returned
C8_Witness ==
    /\ readComment /\ input = HelloStream
    /\ Finished /\ Len(events) = 1 /\ events[1].Data = <<>>

\* C9: once a Read of the source has failed, Err returns the failure and no Next
\* call returns true, the call that met the failure included.
C9_NoEventAfterFailure ==
    (pc = "idle" /\ scErr = "fail") => (ret = "false" /\ err = "fail")

\* C10: the normal end of the stream is no error: a Next call that returns false
\* after io.EOF leaves Err nil and nothing buffered, and every Next call begun
\* after the stream has ended with nothing buffered returns false with Err nil.
C10_EndOfStream ==
    /\ (Finished /\ scErr = "EOF") => (err = "nil" /\ buf = <<>>)
    /\ (pc = "idle" /\ dry # "no") => (ret = "false" /\ err = "nil")
    /\ (pc = "idle" /\ scErr = "EOF" /\ buf = <<>>) => err = "nil"

\* after events were returned and Next returned false at the end of the stream,
\* one more Next call was made and has returned false
C10_Witness ==
    /\ pc = "idle" /\ dry = "again" /\ ret = "false" /\ err = "nil"
    /\ scErr = "EOF" /\ events # <<>>

\* `data: X` alone, with or without its line terminator, and no blank line
LoneDataStreams == {Stream(<<l>>, c) : l \in {LineDataA, LineDataB}, c \in BOOLEAN}

DataEvent(line) == [ZeroEvent EXCEPT !.Data = Drop(line, Len(PrefData))]

\* C11: when the stream ends right after a `data: X` line, without a blank line,
\* Next returns true exactly once, for an event whose Data is X and whose other
\* fields are zero, and the Next calls after it return false.
C11_UnterminatedFinalEvent ==
    input \in LoneDataStreams
    => LET x == DataEvent(SubSeq(input, 1, Len(LineDataA)))
       IN  /\ Len(events) <= 1
           /\ (pc = "idle" /\ ret = "true") => (next = x /\ events = <<x>>)
           /\ Finished => events = <<x>>

\* `data: A` without a terminator was read to the end of the stream: one event
\* was returned, and then Next returned false
C11_Witness ==
    /\ input = Stream(<<LineDataA>>, FALSE)
    /\ Finished /\ scErr = "EOF" /\ Len(events) = 1 /\ Len(tokens) = 1

\* a line of white space only
IsBlankLine(t) == \A i \in 1..Len(t) : t[i] \in {SP, "\t"}

\* the number of maximal runs of non-blank lines among toks
RECURSIVE Blocks(_, _)
Blocks(toks, inRun) ==
    IF toks = <<>> THEN 0
    ELSE IF IsBlankLine(Head(toks)) THEN Blocks(Tail(toks), FALSE)
    ELSE (IF inRun THEN 0 ELSE 1) + Blocks(Tail(toks), TRUE)

\* C12: Next returns true only when a line that is not blank after trimming was
\* read during the call, and blank lines yield no event of their own: the events
\* returned are as many as the runs of non-blank lines read.
C12_NoEventFromBlankLines ==
    /\ (pc = "idle" /\ ret = "true")
       => \E k \in 1..Len(CallTokens) : ~IsBlankLine(CallTokens[k])
    /\ pc = "idle" => Len(events) <= Blocks(tokens, FALSE)
    /\ Finished => Len(events) = Blocks(tokens, FALSE)

\* one event was returned, two blank lines in a row followed its lines, and Next
\* then returned false
C12_Witness ==
    /\ Finished /\ Len(events) = 1
    /\ \E k \in 2..(Len(tokens) - 1) :
          /\ ~IsBlankLine(tokens[k - 1])
          /\ IsBlankLine(tokens[k]) /\ IsBlankLine(tokens[k + 1])

----------------------------------------------------------------------------
(* Claims about the fields of an event. *)

\* some line among toks starts, once trimmed, with the prefix p
HasLine(toks, p) == \E k \in 1..Len(toks) : HasPrefix(TrimSpace(toks[k]), p)

\* the text after the prefix p in the last line among toks that starts with p
RECURSIVE LastPayload(_, _)
LastPayload(toks, p) ==
    IF toks = <<>> THEN <<>>
    ELSE IF HasPrefix(TrimSpace(toks[Len(toks)]), p)
         THEN Drop(TrimSpace(toks[Len(toks)]), Len(p))
         ELSE LastPayload(SubSeq(toks, 1, Len(toks) - 1), p)

\* C13: no field leaks from one event to the next: after a Next call, a field
\* that no line read during the call sets has its zero value, whatever the
\* events before held; after a call that returned false every field is zero.
C13_NoFieldLeak ==
    pc = "idle" =>
        /\ ~HasLine(CallTokens, PrefID) => next.ID = <<>>
        /\ ~HasLine(CallTokens, PrefData) => next.Data = <<>>
        /\ ~HasLine(CallTokens, PrefEvent) => next.Event = <<>>
        /\ ~HasLine(CallTokens, PrefRetry) => next.Retry = 0
        /\ (~HasLine(CallTokens, PrefColon) \/ ~readComment) => next.Comment = <<>>
        /\ ret # "true" => next = ZeroEvent

\* the first event had an ID, the second was made of a data line alone and has none
C13_Witness ==
    /\ pc = "idle" /\ ret = "true" /\ Len(events) = 2
    /\ events[1].ID # <<>> /\ events[1].Data = <<>>
    /\ next.ID = <<>> /\ next.Data # <<>>

\* the Retry the sample `retry: ` lines among toks lead to: the number of the last
\* one whose value is an integer, zero when there is none
RECURSIVE ExpectedRetry(_)
ExpectedRetry(toks) ==
    IF toks = <<>> THEN 0
    ELSE IF toks[Len(toks)] = LineRetry7 THEN 7
    ELSE IF toks[Len(toks)] = LineRetry12 THEN 12
    ELSE ExpectedRetry(SubSeq(toks, 1, Len(toks) - 1))

\* C14: within an event a `retry: ` line with an integer sets Retry to it, and one
\* without leaves Retry as it was, raises no error and does not end the event:
\* the lines after it, up to the blank line or the end of the stream, still count
\* (the call reads on from its first non-blank line to the next blank one).
C14_RetryParsing ==
    (pc = "idle" /\ ret = "true")
    => /\ next.Retry = ExpectedRetry(CallTokens)
       /\ err # "nil" => scErr = "fail"
       /\ \A j, k \in 1..(Len(CallTokens) - 1) :
             (j < k /\ ~IsBlankLine(CallTokens[j])) => ~IsBlankLine(CallTokens[k])
       /\ (scErr = "nil" => CallTokens[Len(CallTokens)] = LineBlank)
       /\ next.ID = LastPayload(CallTokens, PrefID)

\* an event was returned for `retry: 7`, `retry: x`, `id: ...`: Retry is 7 and
\* the ID after the bad line is set
C14_Witness ==
    /\ pc = "idle" /\ ret = "true" /\ err = "nil"
    /\ Len(CallTokens) >= 3
    /\ CallTokens[1] = LineRetry7 /\ CallTokens[2] = LineRetryX
    /\ HasPrefix(CallTokens[3], PrefID)
    /\ next.Retry = 7 /\ next.ID # <<>>

\* C15: of several `id: ` lines in one event the last gives the ID, and of several
\* `event: ` lines the last gives the Event.
C15_LastOneWins ==
    (pc = "idle" /\ ret = "true")
    => /\ next.ID = LastPayload(CallTokens, PrefID)
       /\ next.Event = LastPayload(CallTokens, PrefEvent)

\* an event was returned for two different `id: ` lines: its ID is the second
C15_Witness ==
    /\ pc = "idle" /\ ret = "true"
    /\ Len(CallTokens) >= 2
    /\ CallTokens[1] = LineID1 /\ CallTokens[2] = LineID2
    /\ next.ID = <<"2">>

----------------------------------------------------------------------------
(* Claims about the terminal error. *)

\* C16: Err is non-nil only when a Read of the source failed, and is then that
\* failure unchanged; nothing else, the length of a line included, raises an error.
C16_ErrOnlyFromSource ==
    err # "nil" => (scErr = "fail" /\ err = "fail")

----------------------------------------------------------------------------
(* Claims about Tee and Close. *)

IsSuffix(a, b) == Len(a) <= Len(b) /\ SubSeq(b, Len(b) - Len(a) + 1, Len(b)) = a

\* every Tee call so far was made before the first Next call
TeedEarly == tees # <<>> /\ \A i \in 1..Len(tees) : tees[i].early

\* C17: with Tee(w) called before the first Next, the events are those of the
\* same stream without Tee, the sink holds at every moment exactly the bytes
\* read from the source so far, in order, and the splitter is given no byte that
\* the sink has not been written.
C17_TeeBeforeFirstNext ==
    TeedEarly
    => /\ \A i \in 1..Len(tees) : tees[i].w = SubSeq(input, 1, srcPos)
       /\ IsSuffix(buf, tees[1].w)
       /\ lastSplit.called => IsSuffix(lastSplit.data, tees[1].w)
       /\ pc = "idle" =>
            LET ref == OneChunkEvents(input, readComment)
            IN  /\ IsPrefix(events, ref)
                /\ Finished => events = ref

\* a two-event stream was read to its end under a sink attached before the first
\* Next: the sink holds the whole stream and both events were returned
C17_Witness ==
    /\ TeedEarly /\ Finished /\ srcPos = Len(input)
    /\ tees[1].w = input
    /\ Len(events) = 2 /\ Len(tokens) >= 3

\* C18: after any number of Tee calls, one Scanner.Close calls Close on the
\* reader given to NewScanner exactly once (a reader without Close gets none).
C18_CloseReachesOriginalOnce ==
    closeCalls = 1 => closes = (IF closable THEN 1 ELSE 0)

\* Close was called once under two layers and reached the original reader once
C18_Witness ==
    /\ closable /\ Len(tees) = 2 /\ tees[2].w # <<>>
    /\ closeCalls = 1 /\ closes = 1

\* C19: Scanner.Close is idempotent: a second or later call does not call Close
\* on the original reader again.
C19_CloseIdempotent ==
    closes <= 1

----------------------------------------------------------------------------
(* Claims about shutdown. *)

\* C20: while a function admitted by BlockExit is running, the shutdown sequence
\* starts no exit function and does not end the process, whatever the interleaving
\* and whether SIGINT or the return of Main started it.
C20_BlockExitHoldsShutdown ==
    ~overlap

\* C21: a BlockExit call made when shutdown has begun, by SIGINT or by
\* gracefulExit, is refused with ErrShutdown and its function is not run; a call
\* that is let through leaves waitCount as it found it, so that waitCount counts
\* the calls between their wg.Add and their wg.Done.
C21_BlockExitRefusedInShutdown ==
    /\ ~lateAdmit
    /\ waitCount = Cardinality({w \in Workers : wpc[w] \in {"fn", "counted"}})

C23_MainExitCodes ==
    /\ initErr => ~runCalled
    /\ (exited /\ ~killed /\ sigints = 0)
       => /\ initErr => exitCode = 1
          /\ (~initErr /\ runErr) => exitCode = 1
          /\ (~initErr /\ ~runErr) => exitCode = 0

\* C24: the first SIGINT cancels the context, upon which the watcher calls doExit
\* with code 128 + SIGINT; the later ones do not cancel again; the handler is
\* reset when the third SIGINT has been received and not before, and only then
\* does a SIGINT end the process at once.
C24_SigintHandler ==
    /\ ctxDone = (sigints >= 1)
    /\ cancels = (IF sigints = 0 THEN 0 ELSE 1)
    /\ sigints <= ForceSigints
    /\ handlerReset = (sigints = ForceSigints)
    /\ epc["watcher"] # "watch" => (ctxDone /\ code["watcher"] = 128 + SIGINT)
    /\ killed => handlerReset

\* three SIGINTs were handled, with one cancel, and a fourth ended the process
\* while the watcher was inside doExit
C24_Witness ==
    /\ killed /\ exited /\ sigints = ForceSigints /\ cancels = 1
    /\ epc["watcher"] \in {"lock", "wait", "fns", "cleanup"}

----------------------------------------------------------------------------
(* Claims about the migrator. *)

\* the names of ms that are not in have, each once, in the order of ms
RECURSIVE NewNames(_, _)
NewNames(ms, have) ==
    IF ms = <<>> THEN <<>>
    ELSE IF Head(ms) \in have THEN NewNames(Tail(ms), have)
    ELSE <<Head(ms)>> \o NewNames(Tail(ms), have \cup {Head(ms)})

NoRepeat(q) == \A i, j \in 1..Len(q) : q[i] = q[j] => i = j

----------------------------------------------------------------------------
(* Claims about the splitter's flag and about a sink attached late. *)

\* C26: the pending-CR flag is set only by a Split call that asks for more data
\* because the data given end in a CR while more input may come, and it stays set
\* only until the next Split call: a Split call entered with the flag set leaves
\* it clear, and so does every call that returns a token or skips a byte.
C26_PendingFlagWindow ==
    [][ LET r == lastSplit'
            n == Len(r.data)
        IN  IF pc = "split"
            THEN /\ r.called
                 /\ prevCR' = ( /\ r.advance = 0 /\ ~r.hasToken /\ ~r.atEOF
                                /\ n > 0 /\ r.data[n] = CR )
                 /\ (r.hasToken \/ r.advance > 0) => ~prevCR'
                 /\ prevCR => ~prevCR'
            ELSE prevCR' => prevCR ]_vars

\* the flag was set by a call on data ending in a CR, and the next call, given
\* the CR and another byte, returned the line before the CR and cleared it
C26_Witness ==
    /\ lastSplit.called /\ lastSplit.pending /\ ~prevCR
    /\ lastSplit.hasToken /\ ~lastSplit.atEOF
    /\ lastSplit.advance = Len(lastSplit.token) + 1
    /\ buf # <<>> /\ buf[1] # LF

\* C28: with Tee called at any moment between Next calls, after some Next calls
\* as well as before the first, the events returned are those of the same stream
\* read without Tee.
C28_TeeAnyTime ==
    (tees # <<>> /\ pc = "idle")
    => LET ref == OneChunkEvents(input, readComment)
       IN  /\ IsPrefix(events, ref)
           /\ Finished => events = ref

----------------------------------------------------------------------------
(* Claims about concurrent shutdown. *)

\* the doExit callers past c.mu.Lock()
InDoExit == {p \in {"main", "watcher"} : epc[p] \in {"wait", "fns", "cleanup", "relock"}}

\* C29: of the callers of doExit, the watcher goroutine after a SIGINT and Main
\* through gracefulExit, at most one is ever past the lock, and it holds the
\* lock; the waiting and the exit functions are its alone, each exit function
\* run at most once; the process exits with the code that caller was given, and
\* the other caller is still waiting for the lock when it does.
C29_OneShutdown ==
    /\ Cardinality(InDoExit) <= 1
    /\ \A p \in InDoExit : mu = p
    /\ (InDoExit = {}) => ran = <<>>
    /\ Len(ran) <= Len(exitFns)
    /\ (exited /\ ~killed) => (InDoExit = {mu} /\ exitCode = code[mu])

\* main and the watcher both called doExit; the watcher took the lock, ran an
\* exit function and exited with 130 while main, given code 0, waited
C29_Witness ==
    /\ exited /\ ~killed
    /\ mu = "watcher" /\ epc["main"] = "lock" /\ code["main"] = 0
    /\ ran # <<>> /\ exitCode = 128 + SIGINT

\* C30: once doExit has been called, the process exits.
C30_ShutdownTerminates == DoExitCalled ~> exited

====
